---- MODULE Spec2Model ----
(***************************************************************************)
(* A model of src-tauri/src/lib.rs of icarus: the classifier emit_logs     *)
(* over serde_json values, the drain loop of run() and the orchestrator    *)
(* thread of launch_amaru, with the storage directories they consult.      *)
(*                                                                         *)
(* Strings are sequences of lexemes: every digit, ".", "+" and "-" is a    *)
(* lexeme of its own and every maximal run of other characters is one      *)
(* lexeme, so "42.ab" is <<"4", "2", ".", "ab">>.  Equality of strings,    *)
(* split(".") and the decimal parse see exactly what they see on the       *)
(* characters.                                                             *)
(***************************************************************************)
EXTENDS Integers, Sequences, FiniteSets, TLC

\* How many records the model lets the tracing layer append in one run.
MaxAppends == 2
\* How many clear_app_data_dir commands the presentation layer issues.
MaxClears == 1
\* How many times clear_dbs is called.
MaxDbsClears == 1

\* A decimal string longer than this (leading zeros aside) is above
\* u64::MAX, and str::parse::<u64> answers Err.
U64MaxDigits == 20

(***************************************************************************)
(* Option and Result                                                       *)
(***************************************************************************)
NoneV == [t |-> "none"]
Some(x) == [t |-> "some", v |-> x]
Err == [t |-> "err"]
Ok(x) == [t |-> "ok", v |-> x]
\* A panic raised while the value was computed.
Panic == [t |-> "panic"]

\* Option::unwrap_or / Result::unwrap_or
unwrap_or(o, d) == IF o.t \in {"some", "ok"} THEN o.v ELSE d

(***************************************************************************)
(* serde_json::Value                                                       *)
(***************************************************************************)
JNull == [t |-> "null"]
JBool(b) == [t |-> "bool", b |-> b]
\* An integer number; a negative one has no u64 reading.
JNum(n) == [t |-> "num", n |-> n]
\* A number with a fractional part.
JFloat == [t |-> "float"]
JStr(s) == [t |-> "str", s |-> s]
\* An object: f is a function from its keys to their values.
JObj(f) == [t |-> "obj", f |-> f]

\* Value::get(key): Some only on an object that has the key.
get(v, key) ==
    IF v.t = "obj" /\ key \in DOMAIN v.f THEN Some(v.f[key]) ELSE NoneV

\* Option<&Value>::unwrap_or_default(): the default &Value is &Value::Null.
value_or_default(o) == unwrap_or(o, JNull)

\* Value::as_str
as_str(v) == IF v.t = "str" THEN Some(v.s) ELSE NoneV

\* Value::as_u64
as_u64(v) == IF v.t = "num" /\ v.n >= 0 THEN Some(v.n) ELSE NoneV

\* Value::as_object
as_object(v) == IF v.t = "obj" THEN Some(v) ELSE NoneV

(***************************************************************************)
(* str::parse::<u64> and str::split                                        *)
(***************************************************************************)
Digits == {"0", "1", "2", "3", "4", "5", "6", "7", "8", "9"}

DigitValue(d) ==
    CASE d = "0" -> 0 [] d = "1" -> 1 [] d = "2" -> 2 [] d = "3" -> 3
      [] d = "4" -> 4 [] d = "5" -> 5 [] d = "6" -> 6 [] d = "7" -> 7
      [] d = "8" -> 8 [] d = "9" -> 9

RECURSIVE StripZeros(_)
StripZeros(s) ==
    IF s # <<>> /\ Head(s) = "0" THEN StripZeros(Tail(s)) ELSE s

RECURSIVE DecimalValue(_)
DecimalValue(s) ==
    IF s = <<>> THEN 0
    ELSE 10 * DecimalValue(SubSeq(s, 1, Len(s) - 1)) + DigitValue(s[Len(s)])

\* u64::from_str: an optional "+", then one digit at least and digits only;
\* Err on overflow.
parse_u64(s) ==
    LET body == IF s # <<>> /\ Head(s) = "+" THEN Tail(s) ELSE s
    IN  IF body = <<>> \/ \E i \in 1..Len(body) : body[i] \notin Digits
        THEN Err
        ELSE IF Len(StripZeros(body)) > U64MaxDigits
             THEN Err
             ELSE Ok(DecimalValue(StripZeros(body)))

\* s.split(".").next(): the part before the first ".", the whole of s when
\* it has none; never None.
RECURSIVE split_first(_)
split_first(s) ==
    IF s = <<>> \/ Head(s) = "." THEN <<>>
    ELSE <<Head(s)>> \o split_first(Tail(s))

(***************************************************************************)
(* AppEvent as serde serialises it: {type, payload: {kind, ...fields}}     *)
(***************************************************************************)
Bootstrap(payload) == [type |-> "bootstrap", payload |-> payload]
Runtime(payload) == [type |-> "runtime", payload |-> payload]

DownloadingShapshot(epoch) == [kind |-> "downloading_snapshot", epoch |-> epoch]
SnapshotsDownloaded == [kind |-> "snapshots_downloaded"]
ImportingSnapshots == [kind |-> "importing_snapshots"]
ImportingSnapshot(snapshot) == [kind |-> "importing_snapshot", snapshot |-> snapshot]
ImportedSnapshot(epoch) == [kind |-> "imported_snapshot", epoch |-> epoch]
ImportedSnapshots == [kind |-> "imported_snapshots"]
Starting(tip) == [kind |-> "starting", tip |-> tip]
CreatingState == [kind |-> "creating_state"]
\* Fault variant of EpochTransition: the fields are serialised under other
\* names than the struct's.
EpochTransition_renamed(from, into) ==
    [kind |-> "epoch_transition", from_epoch |-> from, into_epoch |-> into]
EpochTransition(from, into) == [kind |-> "epoch_transition", from |-> from, into |-> into]
TipCaughtUp(slot) == [kind |-> "tip_caught_up", slot |-> slot]
TipSyncing(slot) == [kind |-> "tip_syncing", slot |-> slot]

(***************************************************************************)
(* The classifier: emit_logs up to the publish                             *)
(***************************************************************************)
\* Fault variant of slot_from_point: the whole string is parsed, the
\* split(".") forgotten.
slot_from_point_unsplit(line, field) ==
    LET s == as_str(unwrap_or(get(line, field), JNull))
        slot_val == IF s.t = "some" THEN parse_u64(s.v) ELSE NoneV
    IN  unwrap_or(slot_val, 0)

\* line.get(field).unwrap_or(&Null).as_str().and_then(|obj| obj.split(".").next())
\*     .and_then(|slot_val| slot_val.parse::<u64>().ok()).unwrap_or_default()
slot_from_point(line, field) ==
    LET s == as_str(unwrap_or(get(line, field), JNull))
        first == IF s.t = "some" THEN Some(split_first(s.v)) ELSE NoneV
        slot_val == IF first.t = "some" THEN parse_u64(first.v) ELSE NoneV
    IN  unwrap_or(slot_val, 0)

\* let name = line.get("name").unwrap_or_default().as_str().unwrap_or_default()
name_of(line) == unwrap_or(as_str(value_or_default(get(line, "name"))), <<>>)

\* line.get("epoch").unwrap_or_default().as_str().unwrap_or_default()
\*     .parse().unwrap_or_default()
epoch_of(line) ==
    unwrap_or(parse_u64(unwrap_or(as_str(value_or_default(get(line, "epoch"))), <<>>)), 0)

\* line.get("snapshot").and_then(|v| v.as_str()).unwrap_or_default()
snapshot_of(line) ==
    LET o == get(line, "snapshot")
    IN  unwrap_or(IF o.t = "some" THEN as_str(o.v) ELSE NoneV, <<>>)

\* line.get(field).unwrap_or_default().as_u64().unwrap_or_default()
u64_of(line, field) == unwrap_or(as_u64(value_or_default(get(line, field))), 0)

\* The "starting" arm: as_object().unwrap() panics on a tip that is no object.
arm_starting(line) ==
    LET obj == as_object(value_or_default(get(line, "tip")))
    IN  IF obj.t = "none" THEN Panic
        ELSE Some(Runtime(Starting(u64_of(obj.v, "slot"))))

\* Fault variant of the "epoch_transition" arm: the event is wrapped in the
\* other category.
arm_epoch_transition_as_bootstrap(line) ==
    Some(Bootstrap(EpochTransition(u64_of(line, "from"), u64_of(line, "into"))))

arm_epoch_transition(line) ==
    Some(Runtime(EpochTransition(u64_of(line, "from"), u64_of(line, "into"))))

\* Fault variant of the "_" arm: an unmatched name falls through to the
\* arm above it.
arm_wildcard_falling_through(line) ==
    Some(Runtime(TipSyncing(slot_from_point(line, "point"))))

\* The "_" arm.
arm_wildcard(line) == NoneV

\* let event = match name { ... }
event_of(line) ==
    LET name == name_of(line)
    IN  CASE name = <<"Downloading snapshot">> ->
                Some(Bootstrap(DownloadingShapshot(epoch_of(line))))
          [] name = <<"All snapshots downloaded and decompressed successfully">> ->
                Some(Bootstrap(SnapshotsDownloaded))
          [] name = <<"Importing snapshots">> -> Some(Bootstrap(ImportingSnapshots))
          [] name = <<"Importing snapshot">> ->
                Some(Bootstrap(ImportingSnapshot(snapshot_of(line))))
          [] name = <<"Imported snapshot">> ->
                Some(Bootstrap(ImportedSnapshot(epoch_of(line))))
          [] name = <<"Imported snapshots">> -> Some(Bootstrap(ImportedSnapshots))
          [] name = <<"starting">> -> arm_starting(line)
          [] name = <<"new", ".", "known_snapshots">> -> Some(Runtime(CreatingState))
          [] name = <<"epoch_transition">> -> arm_epoch_transition(line)
          [] name = <<"track_peers", ".", "caught_up", ".", "new_tip">> ->
                Some(Runtime(TipCaughtUp(slot_from_point(line, "point"))))
          [] name = <<"track_peers", ".", "syncing", ".", "new_tip">> ->
                Some(Runtime(TipSyncing(slot_from_point(line, "point"))))
          [] OTHER -> arm_wildcard(line)

(***************************************************************************)
(* Networks, peers and the engine configuration                            *)
(***************************************************************************)
\* NetworkName: the three named networks and Testnet(magic).
Networks == {"Mainnet", "Preprod", "Preview", "Testnet(1)", "Testnet(42)"}

\* Fault variant of peers_for_network: the Preprod arm is missing.
peers_for_network_without_preprod(net) ==
    CASE net = "Mainnet" -> <<"relays.cardano-mainnet.iohk.io:3001">>
      [] net = "Preview" -> << "preview-node.play.dev.cardano.org:3001",
                               "relays.cardano-preview.iohkdev.io:3001" >>
      [] OTHER -> <<>>

peers_for_network(net) ==
    CASE net = "Mainnet" -> <<"relays.cardano-mainnet.iohk.io:3001">>
      [] net = "Preprod" -> <<"preprod-node.play.dev.cardano.org:3001">>
      [] net = "Preview" -> << "preview-node.play.dev.cardano.org:3001",
                               "relays.cardano-preview.iohkdev.io:3001" >>
      [] OTHER -> <<>>

\* No Config has been built yet.
NoConfig == [built |-> FALSE]

\* Config { upstream_peers, ledger_store, chain_store, migrate_chain_db: true,
\* ..Config::default() }
Config(net) ==
    [ built |-> TRUE,
      upstream_peers |-> peers_for_network(net),
      ledger_store |-> "ledger.db",
      chain_store |-> "chain.db",
      migrate_chain_db |-> TRUE ]

(***************************************************************************)
(* State                                                                   *)
(***************************************************************************)
VARIABLES
    appData,        \* the application-data directory exists
    ledger,         \* <app data>/ledger.db exists
    chain,          \* <app data>/chain.db exists
    orchPc,         \* where the thread spawned by launch_amaru is
    ledgerAtStart,  \* what ledger_dir.exists() answered at line 278
    bootstrapCalls, \* calls of bootstrap()
    bootstrapResult, \* what bootstrap() returned: "none" until it has
    engineStarts,   \* calls of build_and_run_network()
    orchResult,     \* how the orchestrator thread ended
    opLog,          \* number of lines written by eprintln!
    network,        \* the NetworkName launch_amaru was given
    config,         \* the Config handed to build_and_run_network
    loopPc,         \* where the task spawned in setup() is
    buffer,         \* the collector's buffered records
    lines,          \* the drained Vec the for loop still has to go through
    cycleStart,     \* records drained before the current cycle's flush
    appended,       \* history: every record appended, in order
    drained,        \* history: every record a flush returned, in order
    handled,        \* history: calls of emit_logs
    emitted,        \* history: every app.emit("amaru", event) and its result
    clears,         \* clear_app_data_dir commands issued
    lastClear,      \* the last command's result
    clearFound,     \* what dir.exists() answered in the last command
    dbsPc,          \* where a running clear_dbs is
    dbsClears,      \* clear_dbs calls begun
    lastDbs         \* the last clear_dbs call's result

fsVars == <<appData, ledger, chain>>
orchVars ==
    <<orchPc, ledgerAtStart, bootstrapCalls, bootstrapResult, engineStarts,
      orchResult, opLog, network, config>>
loopVars == <<loopPc, lines, cycleStart, drained, handled, emitted>>
collectorVars == <<buffer, appended>>
cmdVars == <<clears, lastClear, clearFound, dbsPc, dbsClears, lastDbs>>
vars == <<fsVars, orchVars, loopVars, collectorVars, cmdVars>>

(***************************************************************************)
(* Records the tracing layer hands to the collector                        *)
(***************************************************************************)
Named(name) == "name" :> JStr(name)

\* The records of the concurrent specification: a bootstrap record, a
\* "starting" without its tip, an unrecognized span and a tip.
EngineRecords ==
    { JObj(Named(<<"Importing snapshot">>) @@ ("snapshot" :> JStr(<<"1", "2", "3">>))),
      JObj(Named(<<"starting">>)),
      JObj(Named(<<"resolve_peer">>)),
      JObj(Named(<<"track_peers", ".", "syncing", ".", "new_tip">>)
             @@ ("point" :> JStr(<<"4", "2", ".", "ab">>))) }

\* Sample strings: decimal, signed, empty, not a number, "<slot>.<hash>"
\* shapes, and twenty-one digits (above u64::MAX).
SampleStrings ==
    { <<>>, <<"5">>, <<"2", "1", "4">>, <<"0", "0", "7">>, <<"+", "5">>,
      <<"-", "1">>, <<"abc">>, <<"5", "a">>, <<"1", "2", "3">>,
      <<"7", "0", "0", "7", "0", "3", "7", "9", ".", "d", "6", "fe">>,
      <<"4", "2", ".", "ab", ".", "7">>, <<".", "5">>, <<"x", ".", "5">>,
      <<"9", "9", "9", "9", "9", "9", "9", "9", "9", "9", "9", "9", "9", "9",
        "9", "9", "9", "9", "9", "9", "9">> }

SampleScalars ==
    {JNull, JBool(TRUE), JFloat, JNum(0), JNum(214), JNum(215), JNum(-1)}
        \cup {JStr(s) : s \in SampleStrings}

\* What a field of a record may hold; "absent" stands for a missing key.
SampleValues ==
    SampleScalars \cup {JObj(<<>>)} \cup {JObj("slot" :> v) : v \in SampleScalars}

\* An object with the given name and, unless absent, the given field.
WithField(name, key, v) == JObj(Named(name) @@ (key :> v))

\* A field present with each sample value, or missing.
FieldCases(name, key) ==
    {JObj(Named(name))} \cup {WithField(name, key, v) : v \in SampleValues}

TableNames ==
    { <<"Downloading snapshot">>,
      <<"All snapshots downloaded and decompressed successfully">>,
      <<"Importing snapshots">>, <<"Importing snapshot">>, <<"Imported snapshot">>,
      <<"Imported snapshots">>, <<"starting">>, <<"new", ".", "known_snapshots">>,
      <<"epoch_transition">>, <<"track_peers", ".", "caught_up", ".", "new_tip">>,
      <<"track_peers", ".", "syncing", ".", "new_tip">> }

OtherNames ==
    { <<>>, <<"Starting">>, <<"starting ">>, <<"epoch", "-", "transition">>,
      <<"resolve_peer">>, <<"track_peers", ".", "new_tip">>, <<"Imported">> }

EpochPairs ==
    {JNum(214), JNum(215), JNum(-1), JFloat, JStr(<<"5">>), JNull}

\* The records of the classifier's specification: every name of the match
\* with its fields missing, mistyped, unparsable and well-formed; names
\* outside the match; no name, a name that is no string; lines that are no
\* object.
AllLines ==
    UNION { FieldCases(n, "epoch") :
              n \in {<<"Downloading snapshot">>, <<"Imported snapshot">>} }
    \cup FieldCases(<<"Importing snapshot">>, "snapshot")
    \cup FieldCases(<<"starting">>, "tip")
    \cup UNION { FieldCases(n, "point") :
                   n \in { <<"track_peers", ".", "caught_up", ".", "new_tip">>,
                           <<"track_peers", ".", "syncing", ".", "new_tip">> } }
    \cup { JObj(Named(<<"epoch_transition">>) @@ ("from" :> a) @@ ("into" :> b)) :
             a \in EpochPairs, b \in EpochPairs }
    \cup { JObj(Named(<<"epoch_transition">>) @@ (k :> a)) :
             k \in {"from", "into"}, a \in EpochPairs }
    \cup { JObj(Named(n)) : n \in TableNames \cup OtherNames }
    \cup { JObj(Named(n) @@ ("tip" :> JObj("slot" :> JNum(7))) @@ ("epoch" :> JStr(<<"5">>)))
             : n \in OtherNames }
    \cup { JObj(<<>>), JObj("name" :> JNull), JObj("name" :> JNum(7)),
           JObj("name" :> JObj(<<>>)), JObj("tip" :> JObj("slot" :> JNum(7))),
           JNull, JNum(7), JStr(<<"starting">>) }

(***************************************************************************)
(* Init: the state when setup() spawns its task (line 236)                 *)
(***************************************************************************)
Init ==
    /\ appData \in BOOLEAN
    /\ ledger \in BOOLEAN
    /\ chain \in BOOLEAN
    /\ (ledger \/ chain) => appData
    /\ orchPc = "unspawned"
    /\ ledgerAtStart = "unknown"
    /\ bootstrapCalls = 0
    /\ bootstrapResult = "none"
    /\ engineStarts = 0
    /\ orchResult = "none"
    /\ opLog = 0
    /\ network = "Preprod"
    /\ config = NoConfig
    /\ loopPc = "launch"
    /\ buffer = <<>>
    /\ lines = <<>>
    /\ cycleStart = 0
    /\ appended = <<>>
    /\ drained = <<>>
    /\ handled = 0
    /\ emitted = <<>>
    /\ clears = 0
    /\ lastClear = "none"
    /\ clearFound = "none"
    /\ dbsPc = "idle"
    /\ dbsClears = 0
    /\ lastDbs = "none"

(***************************************************************************)
(* The orchestrator: launch_amaru and the thread it spawns                 *)
(***************************************************************************)
\* launch_amaru(app_handle, Preprod): spawns the thread and returns.
LaunchAmaru ==
    /\ loopPc = "launch"
    /\ loopPc' = "flush"
    /\ orchPc' = "not_started"
    /\ UNCHANGED <<fsVars, ledgerAtStart, bootstrapCalls, bootstrapResult,
                   engineStarts, orchResult, opLog, network, config, lines, cycleStart, drained, handled, emitted,
                   collectorVars, cmdVars>>

\* Fault variant of OrchStart: the existence test inverted
\* (if ledger_dir.exists() { bootstrap(...) }).
OrchStart_inverted ==
    /\ orchPc = "not_started"
    /\ IF ~ledger
       THEN /\ ledgerAtStart' = "absent"
            /\ orchPc' = "starting_engine"
            /\ UNCHANGED bootstrapCalls
       ELSE /\ ledgerAtStart' = "present"
            /\ orchPc' = "bootstrapping"
            /\ bootstrapCalls' = bootstrapCalls + 1
    /\ UNCHANGED <<fsVars, bootstrapResult, engineStarts, orchResult, opLog,
                   network, config, loopVars, collectorVars, cmdVars>>

\* if !ledger_dir.exists() { bootstrap(...) ... }
OrchStart ==
    /\ orchPc = "not_started"
    /\ IF ledger
       THEN /\ ledgerAtStart' = "present"
            /\ orchPc' = "starting_engine"
            /\ UNCHANGED bootstrapCalls
       ELSE /\ ledgerAtStart' = "absent"
            /\ orchPc' = "bootstrapping"
            /\ bootstrapCalls' = bootstrapCalls + 1
    /\ UNCHANGED <<fsVars, bootstrapResult, engineStarts, orchResult, opLog,
                   network, config, loopVars, collectorVars, cmdVars>>

\* Fault variant of BootstrapReturn: the Result is dropped instead of
\* unwrapped, so a failed bootstrap goes on to the engine.
BootstrapReturn_ignoring_err ==
    /\ orchPc = "bootstrapping"
    /\ \/ /\ appData' = TRUE
          /\ ledger' = TRUE
          /\ chain' = TRUE
          /\ bootstrapResult' = "ok"
       \/ /\ \E written \in BOOLEAN :
                /\ ledger' = (ledger \/ written)
                /\ chain' = chain
                /\ appData' = (appData \/ written)
          /\ bootstrapResult' = "err"
    /\ orchPc' = "starting_engine"
    /\ UNCHANGED <<ledgerAtStart, bootstrapCalls, engineStarts, orchResult, opLog,
                   network, config, loopVars, collectorVars, cmdVars>>

\* bootstrap(...).await.unwrap(): Ok leaves both stores on disk; Err panics
\* the thread, with whatever the bootstrap had written so far.
BootstrapReturn ==
    /\ orchPc = "bootstrapping"
    /\ \/ /\ appData' = TRUE
          /\ ledger' = TRUE
          /\ chain' = TRUE
          /\ bootstrapResult' = "ok"
          /\ orchPc' = "starting_engine"
          /\ UNCHANGED orchResult
       \/ /\ \E written \in BOOLEAN :
                /\ ledger' = (ledger \/ written)
                /\ chain' = chain
                /\ appData' = (appData \/ written)
          /\ bootstrapResult' = "err"
          /\ orchPc' = "terminated"
          /\ orchResult' = "bootstrap_failed"
    /\ UNCHANGED <<ledgerAtStart, bootstrapCalls, engineStarts, opLog, network,
                   config, loopVars, collectorVars, cmdVars>>

\* match build_and_run_network(config, None).await { Ok(running) => ...,
\* Err(e) => eprintln!(...) }: a started engine has opened both stores.
\* Fault variant of the engine start: the Err arm also sends a failure event
\* to the presentation layer.
EngineStart_publishing_failure ==
    /\ orchPc = "starting_engine"
    /\ config' = Config(network)
    /\ engineStarts' = engineStarts + 1
    /\ \/ /\ orchPc' = "engine_running"
          /\ appData' = TRUE
          /\ ledger' = TRUE
          /\ chain' = TRUE
          /\ UNCHANGED <<orchResult, opLog, emitted>>
       \/ /\ orchPc' = "terminated"
          /\ orchResult' = "start_failed"
          /\ opLog' = opLog + 1
          /\ emitted' = Append(emitted,
                 [ channel |-> "amaru", event |-> Runtime([kind |-> "start_failed"]),
                   ok |-> TRUE, line |-> JNull, idx |-> 0, cycle |-> cycleStart ])
          /\ UNCHANGED fsVars
    /\ UNCHANGED <<ledgerAtStart, bootstrapCalls, bootstrapResult, network,
                   loopPc, lines, cycleStart, drained, handled, collectorVars,
                   cmdVars>>

\* match build_and_run_network(config, None).await { Ok(running) => ..,
\* Err(e) => eprintln!(..) }
EngineStart ==
    /\ orchPc = "starting_engine"
    /\ config' = Config(network)
    /\ engineStarts' = engineStarts + 1
    /\ \/ /\ orchPc' = "engine_running"
          /\ appData' = TRUE
          /\ ledger' = TRUE
          /\ chain' = TRUE
          /\ UNCHANGED <<orchResult, opLog>>
       \/ /\ orchPc' = "terminated"
          /\ orchResult' = "start_failed"
          /\ opLog' = opLog + 1
          /\ UNCHANGED fsVars
    /\ UNCHANGED <<ledgerAtStart, bootstrapCalls, bootstrapResult, network,
                   loopVars, collectorVars, cmdVars>>

\* Fault variant of the engine's exit: the orchestration starts over.
EngineExit_restarting ==
    /\ orchPc = "engine_running"
    /\ orchPc' = "not_started"
    /\ orchResult' = "engine_exit"
    /\ UNCHANGED <<fsVars, ledgerAtStart, bootstrapCalls, bootstrapResult,
                   engineStarts, opLog, network, config, loopVars, collectorVars,
                   cmdVars>>

\* running.join().await returns.
EngineExit ==
    /\ orchPc = "engine_running"
    /\ orchPc' = "terminated"
    /\ orchResult' = "engine_exit"
    /\ UNCHANGED <<fsVars, ledgerAtStart, bootstrapCalls, bootstrapResult,
                   engineStarts, opLog, network, config, loopVars, collectorVars,
                   cmdVars>>

(***************************************************************************)
(* The collector                                                           *)
(***************************************************************************)
\* JsonTraceCollector::flush: swaps the buffer for an empty one and returns
\* what it held.
flush(buf) == [returned |-> buf, left |-> <<>>]

\* The JsonLayer appends one record; any thread of the process may do it.
Record ==
    /\ Len(appended) < MaxAppends
    /\ \E r \in EngineRecords :
          /\ buffer' = Append(buffer, r)
          /\ appended' = Append(appended, r)
    /\ UNCHANGED <<fsVars, orchVars, loopVars, cmdVars>>

(***************************************************************************)
(* The drain loop of the task spawned in setup()                           *)
(***************************************************************************)
\* Fault variant of LoopFlush: the loop reads the buffered records and
\* leaves them in the collector.
LoopFlush_keeping_buffer ==
    /\ loopPc = "flush"
    /\ lines' = buffer
    /\ buffer' = buffer
    /\ drained' = drained \o buffer
    /\ cycleStart' = Len(drained)
    /\ loopPc' = "for"
    /\ UNCHANGED <<fsVars, orchVars, handled, emitted, appended, cmdVars>>

\* Fault variant of the drain: a drain that finds the collector empty hands
\* out the record drained last once more.
LoopFlush_redelivering ==
    /\ loopPc = "flush"
    /\ lines' = IF buffer = <<>> /\ drained # <<>>
                   THEN <<drained[Len(drained)]>>
                   ELSE buffer
    /\ buffer' = <<>>
    /\ drained' = drained \o lines'
    /\ cycleStart' = Len(drained)
    /\ loopPc' = "for"
    /\ UNCHANGED <<fsVars, orchVars, handled, emitted, appended, cmdVars>>

\* let lines = collector.flush();
LoopFlush ==
    /\ loopPc = "flush"
    /\ lines' = flush(buffer).returned
    /\ buffer' = flush(buffer).left
    /\ drained' = drained \o flush(buffer).returned
    /\ cycleStart' = Len(drained)
    /\ loopPc' = "for"
    /\ UNCHANGED <<fsVars, orchVars, handled, emitted, appended, cmdVars>>

\* Fault variant of emit_logs: app.emit("amaru", event).unwrap(), so a
\* failed publish panics the task.
emit_logs_unwrapping_emit(line) ==
    LET event == event_of(line)
    IN  /\ handled' = handled + 1
        /\ CASE event.t = "panic" ->
                  /\ loopPc' = "panicked"
                  /\ UNCHANGED emitted
             [] event.t = "none" ->
                  /\ loopPc' = "for"
                  /\ UNCHANGED emitted
             [] event.t = "some" ->
                  \E ok \in BOOLEAN :
                     /\ loopPc' = IF ok THEN "for" ELSE "panicked"
                     /\ emitted' = Append(emitted,
                            [channel |-> "amaru", event |-> event.v, ok |-> ok,
                             line |-> line, idx |-> handled + 1,
                             cycle |-> cycleStart])

\* emit_logs(&app_handle, line): classify, then let _ = app.emit("amaru", event),
\* whose Result is dropped.  A panic of the classification ends the task.
emit_logs(line) ==
    LET event == event_of(line)
    IN  /\ handled' = handled + 1
        /\ CASE event.t = "panic" ->
                  /\ loopPc' = "panicked"
                  /\ UNCHANGED emitted
             [] event.t = "none" ->
                  /\ loopPc' = "for"
                  /\ UNCHANGED emitted
             [] event.t = "some" ->
                  /\ loopPc' = "for"
                  /\ \E ok \in BOOLEAN :
                        emitted' = Append(emitted,
                            [channel |-> "amaru", event |-> event.v, ok |-> ok,
                             line |-> line, idx |-> handled + 1,
                             cycle |-> cycleStart])

\* Fault variant of LoopEmit: the drained records are taken from the back
\* (while let Some(line) = lines.pop()).
LoopEmit_from_back ==
    /\ loopPc = "for"
    /\ lines # <<>>
    /\ emit_logs(lines[Len(lines)])
    /\ lines' = IF loopPc' = "panicked" THEN <<>> ELSE SubSeq(lines, 1, Len(lines) - 1)
    /\ UNCHANGED <<fsVars, orchVars, cycleStart, drained, collectorVars, cmdVars>>

\* for line in lines { emit_logs(&app_handle, line); }
LoopEmit ==
    /\ loopPc = "for"
    /\ lines # <<>>
    /\ emit_logs(Head(lines))
    /\ lines' = IF loopPc' = "panicked" THEN <<>> ELSE Tail(lines)
    /\ UNCHANGED <<fsVars, orchVars, cycleStart, drained, collectorVars, cmdVars>>

\* The for loop is through; tokio::time::sleep(500 ms).await, then again.
LoopSleep ==
    /\ loopPc = "for"
    /\ lines = <<>>
    /\ loopPc' = "flush"
    /\ UNCHANGED <<fsVars, orchVars, lines, cycleStart, drained, handled, emitted,
                   collectorVars, cmdVars>>

(***************************************************************************)
(* Commands of the presentation layer                                      *)
(***************************************************************************)
\* clear_app_data_dir: remove_dir_all when the directory exists.  A failed
\* removal may have removed part of the tree.
\* Fault variant of clear_app_data_dir: the error of remove_dir_all is
\* dropped and Ok returned.
ClearAppDataDir_dropping_err ==
    /\ clears < MaxClears
    /\ clears' = clears + 1
    /\ clearFound' = IF appData THEN "existed" ELSE "absent"
    /\ lastClear' = "ok"
    /\ IF appData
       THEN \/ /\ appData' = FALSE
               /\ ledger' = FALSE
               /\ chain' = FALSE
            \/ /\ appData' = TRUE
               /\ ledger' \in {ledger, FALSE}
               /\ chain' \in {chain, FALSE}
       ELSE UNCHANGED fsVars
    /\ UNCHANGED <<dbsPc, dbsClears, lastDbs, orchVars, loopVars, collectorVars>>

ClearAppDataDir ==
    /\ clears < MaxClears
    /\ clears' = clears + 1
    /\ clearFound' = IF appData THEN "existed" ELSE "absent"
    /\ IF appData
       THEN \/ /\ appData' = FALSE
               /\ ledger' = FALSE
               /\ chain' = FALSE
               /\ lastClear' = "ok"
            \/ /\ appData' = TRUE
               /\ ledger' \in {ledger, FALSE}
               /\ chain' \in {chain, FALSE}
               /\ lastClear' = "err"
       ELSE /\ lastClear' = "ok"
            /\ UNCHANGED fsVars
    /\ UNCHANGED <<dbsPc, dbsClears, lastDbs, orchVars, loopVars, collectorVars>>

\* clear_dbs up to the removal of the ledger directory:
\* if ledger_dir.exists() { remove_dir_all(&ledger_dir).map_err(..)? }
ClearDbsLedger ==
    /\ dbsPc = "idle"
    /\ dbsClears < MaxDbsClears
    /\ dbsClears' = dbsClears + 1
    /\ IF ledger
       THEN \/ /\ ledger' = FALSE
               /\ dbsPc' = "chain"
               /\ lastDbs' = "running"
            \/ /\ ledger' = TRUE
               /\ dbsPc' = "idle"
               /\ lastDbs' = "err"
       ELSE /\ ledger' = ledger
            /\ dbsPc' = "chain"
            /\ lastDbs' = "running"
    /\ UNCHANGED <<appData, chain, clears, lastClear, clearFound, orchVars,
                   loopVars, collectorVars>>

\* clear_dbs from there to its return: the second test asks ledger_dir.exists()
\* again, and only then is remove_dir_all(&chain_dir) called.
ClearDbsChain ==
    /\ dbsPc = "chain"
    /\ dbsPc' = "idle"
    /\ IF ledger
       THEN \/ /\ chain
               /\ chain' = FALSE
               /\ lastDbs' = "ok"
            \/ /\ chain' = chain
               /\ lastDbs' = "err"
       ELSE /\ chain' = chain
            /\ lastDbs' = "ok"
    /\ UNCHANGED <<appData, ledger, dbsClears, clears, lastClear, clearFound,
                   orchVars, loopVars, collectorVars>>

(***************************************************************************)
(* Specifications                                                          *)
(***************************************************************************)
Next ==
    \/ LaunchAmaru
    \/ OrchStart
    \/ BootstrapReturn
    \/ EngineStart
    \/ EngineExit
    \/ Record
    \/ LoopFlush
    \/ LoopEmit
    \/ LoopSleep
    \/ ClearAppDataDir

Spec == Init /\ [][Next]_vars

\* The async runtime keeps scheduling the spawned task, and its sleep ends.
FairSpec ==
    /\ Spec
    /\ WF_vars(LaunchAmaru)
    /\ WF_vars(LoopFlush)
    /\ WF_vars(LoopEmit)
    /\ WF_vars(LoopSleep)

\* The orchestrator for any network: launch_amaru takes the network as its
\* parameter, and peers_for_network answers for every NetworkName.
InitOrch ==
    /\ appData \in BOOLEAN
    /\ ledger \in BOOLEAN
    /\ chain \in BOOLEAN
    /\ (ledger \/ chain) => appData
    /\ orchPc = "unspawned"
    /\ ledgerAtStart = "unknown"
    /\ bootstrapCalls = 0
    /\ bootstrapResult = "none"
    /\ engineStarts = 0
    /\ orchResult = "none"
    /\ opLog = 0
    /\ network \in Networks
    /\ config = NoConfig
    /\ loopPc = "launch"
    /\ buffer = <<>>
    /\ lines = <<>>
    /\ cycleStart = 0
    /\ appended = <<>>
    /\ drained = <<>>
    /\ handled = 0
    /\ emitted = <<>>
    /\ clears = 0
    /\ lastClear = "none"
    /\ clearFound = "none"
    /\ dbsPc = "idle"
    /\ dbsClears = 0
    /\ lastDbs = "none"

NextOrch ==
    \/ LaunchAmaru
    \/ OrchStart
    \/ BootstrapReturn
    \/ EngineStart
    \/ EngineExit
    \/ ClearAppDataDir

SpecOrch == InitOrch /\ [][NextOrch]_vars

\* The program with clear_dbs called: the orchestrator and the two commands
\* on the storage directories.
NextDbs ==
    \/ NextOrch
    \/ ClearDbsLedger
    \/ ClearDbsChain

SpecDbs == Init /\ [][NextDbs]_vars

\* The classifier alone: a record of AllLines, alone or followed by an engine
\* record, is in the collector when the drain loop starts, and the loop
\* drains and classifies what it finds.
InitClassify ==
    /\ appData = TRUE
    /\ ledger = TRUE
    /\ chain = TRUE
    /\ orchPc = "not_started"
    /\ ledgerAtStart = "unknown"
    /\ bootstrapCalls = 0
    /\ bootstrapResult = "none"
    /\ engineStarts = 0
    /\ orchResult = "none"
    /\ opLog = 0
    /\ network = "Preprod"
    /\ config = NoConfig
    /\ loopPc = "flush"
    /\ \E r \in AllLines :
          /\ buffer \in {<<r>>} \cup {<<r, e>> : e \in EngineRecords}
          /\ appended = buffer
    /\ lines = <<>>
    /\ cycleStart = 0
    /\ drained = <<>>
    /\ handled = 0
    /\ emitted = <<>>
    /\ clears = 0
    /\ lastClear = "none"
    /\ clearFound = "none"
    /\ dbsPc = "idle"
    /\ dbsClears = 0
    /\ lastDbs = "none"

NextClassify ==
    \/ LoopFlush
    \/ LoopEmit
    \/ LoopSleep

SpecClassify == InitClassify /\ [][NextClassify]_vars

(***************************************************************************)
(* Properties                                                              *)
(***************************************************************************)

\* C1: if the ledger directory exists when the orchestration starts,
\* bootstrap is never invoked; if it is absent, bootstrap is invoked exactly
\* once, and it has returned (Ok) before build_and_run_network is attempted.
C1_BootstrapGatedByLedger ==
    /\ ledgerAtStart = "unknown" => (bootstrapCalls = 0 /\ engineStarts = 0)
    /\ ledgerAtStart = "present" => bootstrapCalls = 0
    /\ ledgerAtStart = "absent" => bootstrapCalls = 1
    /\ (ledgerAtStart = "absent" /\ engineStarts > 0) => bootstrapResult = "ok"
    /\ (ledgerAtStart = "present" /\ engineStarts > 0) => bootstrapResult = "none"

C1_Witness ==
    /\ ledgerAtStart = "absent"
    /\ bootstrapCalls = 1
    /\ bootstrapResult = "ok"
    /\ engineStarts = 1

\* C2: once bootstrap has failed the orchestrator thread is over and
\* build_and_run_network has not been and is never called.
C2_BootstrapFailureTerminates ==
    bootstrapResult = "err" =>
        /\ orchPc = "terminated"
        /\ orchResult = "bootstrap_failed"
        /\ engineStarts = 0

C2_Witness ==
    /\ bootstrapResult = "err"
    /\ orchPc = "terminated"
    /\ handled > 0

\* C3: every record appended has been returned by exactly one flush or is
\* still in the collector: the flushes' results, in order, followed by the
\* buffer are the appended records, none missing and none twice.
C3_DrainedExactlyOnce ==
    /\ appended = drained \o buffer
    /\ lines = SubSeq(drained, Len(drained) - Len(lines) + 1, Len(drained))

C3_Witness ==
    /\ Len(drained) = 2
    /\ cycleStart = 1
    /\ buffer = <<>>

\* C4: the events published in one drain cycle are in the order of the
\* records they come from: each published event is the classification of the
\* drained record at its position, and of two events of one cycle the one
\* published first comes from the record drained first.
C4_OrderWithinCycle ==
    /\ \A i \in 1..Len(emitted) :
          /\ emitted[i].idx \in (emitted[i].cycle + 1)..Len(drained)
          /\ emitted[i].line = drained[emitted[i].idx]
          /\ event_of(emitted[i].line) = Some(emitted[i].event)
    /\ \A i, j \in 1..Len(emitted) :
          (i < j /\ emitted[i].cycle = emitted[j].cycle) =>
              emitted[i].idx < emitted[j].idx

C4_Witness ==
    /\ Len(emitted) = 2
    /\ emitted[1].cycle = emitted[2].cycle
    /\ emitted[1].event # emitted[2].event

\* Whether a record's name is one of the eleven names of the mapping table.
HasTableName(line) ==
    /\ line.t = "obj"
    /\ "name" \in DOMAIN line.f
    /\ line.f["name"].t = "str"
    /\ line.f["name"].s \in TableNames

\* The publishes that came from the k-th record handed to emit_logs.
EmittedFor(k) == {i \in 1..Len(emitted) : emitted[i].idx = k}

\* C5: classifying a record whose name is in the mapping table never fails
\* and produces the mapped event; a "starting" record whose tip is absent or
\* no object yields Starting with slot 0.
C5_RecognizedNeverFails ==
    \A k \in 1..handled :
        HasTableName(drained[k]) =>
            /\ ~(loopPc = "panicked" /\ k = handled)
            /\ EmittedFor(k) # {}
            /\ ( /\ drained[k].f["name"].s = <<"starting">>
                 /\ ("tip" \notin DOMAIN drained[k].f \/ drained[k].f["tip"].t # "obj") )
               => \E i \in EmittedFor(k) : emitted[i].event = Runtime(Starting(0))

\* C6: whatever record the loop has classified, the loop is still running.
C6_LoopSurvivesAnyRecord ==
    handled > 0 => loopPc \in {"for", "flush"}

\* C7: a failed publish is ignored: the step that gets the failure leaves the
\* loop in its for loop with the rest of the cycle's records still to handle,
\* and every record classified to an event has had that event submitted,
\* whatever the earlier publishes returned.
C7_PublishFailureIgnored ==
    /\ [](\A k \in 1..handled :
            event_of(drained[k]).t = "some" => EmittedFor(k) # {})
    /\ [][ (Len(emitted') = Len(emitted) + 1 /\ ~emitted'[Len(emitted')].ok)
             => (loopPc' = "for" /\ lines' = Tail(lines)) ]_vars

C7_Witness ==
    /\ Len(emitted) = 2
    /\ ~emitted[1].ok
    /\ emitted[1].cycle # emitted[2].cycle

\* C8: in every state of the orchestrator the drain loop keeps running its
\* cycles: every record appended is eventually drained.
C8_AppendedEventuallyDrained ==
    \A n \in 1..MaxAppends : (Len(appended) >= n) ~> (Len(drained) >= n)

\* C9: a record whose name is not in the mapping table, has no name or a
\* name that is no string, is dropped: nothing is published for it and its
\* classification does not fail.
C9_UnrecognizedDropped ==
    \A k \in 1..handled :
        ~HasTableName(drained[k]) =>
            /\ EmittedFor(k) = {}
            /\ ~(loopPc = "panicked" /\ k = handled)

C9_Witness ==
    /\ handled = 1
    /\ ~HasTableName(drained[1])
    /\ drained[1].t = "obj"
    /\ "name" \in DOMAIN drained[1].f
    /\ loopPc = "flush"

\* A decimal numeral that fits the unsigned integer type.
IsNumeral(s) ==
    /\ s # <<>>
    /\ \A i \in 1..Len(s) : s[i] \in Digits
    /\ Len(s) < U64MaxDigits

\* The value of a numeral, from its first digit on.
RECURSIVE NumeralValue(_, _)
NumeralValue(acc, s) ==
    IF s = <<>> THEN acc ELSE NumeralValue(10 * acc + DigitValue(Head(s)), Tail(s))

\* The part of s before its first ".".
BeforeFirstDot(s) ==
    LET dots == {i \in 1..Len(s) : s[i] = "."}
        first == CHOOSE i \in dots : \A j \in dots : i <= j
    IN  SubSeq(s, 1, first - 1)

HasField(line, key, type) == key \in DOMAIN line.f /\ line.f[key].t = type

\* A record with a name of the table and the fields of its row well-formed.
WellFormed(line) ==
    /\ HasTableName(line)
    /\ LET name == line.f["name"].s
       IN  CASE name \in {<<"Downloading snapshot">>, <<"Imported snapshot">>} ->
                   HasField(line, "epoch", "str") /\ IsNumeral(line.f["epoch"].s)
             [] name = <<"Importing snapshot">> -> HasField(line, "snapshot", "str")
             [] name = <<"starting">> ->
                   /\ HasField(line, "tip", "obj")
                   /\ HasField(line.f["tip"], "slot", "num")
                   /\ line.f["tip"].f["slot"].n >= 0
             [] name = <<"epoch_transition">> ->
                   /\ HasField(line, "from", "num") /\ line.f["from"].n >= 0
                   /\ HasField(line, "into", "num") /\ line.f["into"].n >= 0
             [] name \in { <<"track_peers", ".", "caught_up", ".", "new_tip">>,
                           <<"track_peers", ".", "syncing", ".", "new_tip">> } ->
                   /\ HasField(line, "point", "str")
                   /\ \E i \in 1..Len(line.f["point"].s) : line.f["point"].s[i] = "."
                   /\ IsNumeral(BeforeFirstDot(line.f["point"].s))
             [] OTHER -> TRUE

\* The event the mapping table gives a well-formed record.
TableEvent(line) ==
    LET name == line.f["name"].s
    IN  CASE name = <<"Downloading snapshot">> ->
                Bootstrap(DownloadingShapshot(NumeralValue(0, line.f["epoch"].s)))
          [] name = <<"All snapshots downloaded and decompressed successfully">> ->
                Bootstrap(SnapshotsDownloaded)
          [] name = <<"Importing snapshots">> -> Bootstrap(ImportingSnapshots)
          [] name = <<"Importing snapshot">> ->
                Bootstrap(ImportingSnapshot(line.f["snapshot"].s))
          [] name = <<"Imported snapshot">> ->
                Bootstrap(ImportedSnapshot(NumeralValue(0, line.f["epoch"].s)))
          [] name = <<"Imported snapshots">> -> Bootstrap(ImportedSnapshots)
          [] name = <<"starting">> -> Runtime(Starting(line.f["tip"].f["slot"].n))
          [] name = <<"new", ".", "known_snapshots">> -> Runtime(CreatingState)
          [] name = <<"epoch_transition">> ->
                Runtime(EpochTransition(line.f["from"].n, line.f["into"].n))
          [] name = <<"track_peers", ".", "caught_up", ".", "new_tip">> ->
                Runtime(TipCaughtUp(NumeralValue(0, BeforeFirstDot(line.f["point"].s))))
          [] name = <<"track_peers", ".", "syncing", ".", "new_tip">> ->
                Runtime(TipSyncing(NumeralValue(0, BeforeFirstDot(line.f["point"].s))))

\* C10: a record with a recognized name and well-formed fields is published
\* as the variant of the mapping table with the fields extracted: the epoch
\* parsed from its string, the snapshot string, from and into as given, the
\* slot as the number before the first "." of point.
C10_WellFormedClassified ==
    \A k \in 1..handled :
        WellFormed(drained[k]) =>
            /\ Cardinality(EmittedFor(k)) = 1
            /\ \A i \in EmittedFor(k) : emitted[i].event = TableEvent(drained[k])

C10_Witness ==
    /\ handled = 1
    /\ drained[1] = WithField(<<"track_peers", ".", "syncing", ".", "new_tip">>, "point",
                        JStr(<<"7", "0", "0", "7", "0", "3", "7", "9", ".", "d", "6", "fe">>))
    /\ Len(emitted) = 1
    /\ emitted[1].event = Runtime(TipSyncing(70070379))

\* The six names of the bootstrap phase and the five of the runtime phase.
BootstrapNames ==
    { <<"Downloading snapshot">>,
      <<"All snapshots downloaded and decompressed successfully">>,
      <<"Importing snapshots">>, <<"Importing snapshot">>, <<"Imported snapshot">>,
      <<"Imported snapshots">> }

RuntimeNames ==
    { <<"starting">>, <<"new", ".", "known_snapshots">>, <<"epoch_transition">>,
      <<"track_peers", ".", "caught_up", ".", "new_tip">>,
      <<"track_peers", ".", "syncing", ".", "new_tip">> }

HasNameIn(line, names) ==
    /\ line.t = "obj"
    /\ "name" \in DOMAIN line.f
    /\ line.f["name"].t = "str"
    /\ line.f["name"].s \in names

\* C11: each drained record leads to at most one published event; the event
\* is of the bootstrap category exactly when the record's name is one of the
\* six bootstrap names and of the runtime category exactly when it is one of
\* the five runtime names; and the events published in a cycle are never
\* more than the records drained in it.
C11_AtMostOneEventOneCategory ==
    /\ \A k \in 1..Len(drained) : Cardinality(EmittedFor(k)) <= 1
    /\ \A i \in 1..Len(emitted) :
          LET line == drained[emitted[i].idx]
              type == emitted[i].event.type
          IN  /\ type \in {"bootstrap", "runtime"}
              /\ (type = "bootstrap") <=> HasNameIn(line, BootstrapNames)
              /\ (type = "runtime") <=> HasNameIn(line, RuntimeNames)
    /\ Cardinality({i \in 1..Len(emitted) : emitted[i].cycle = cycleStart})
          <= Len(drained) - cycleStart

\* A cycle of two records, one of a bootstrap name and one dropped, has
\* published one bootstrap event.
C11_Witness ==
    /\ Len(drained) = 2
    /\ cycleStart = 0
    /\ handled = 2
    /\ HasNameIn(drained[1], BootstrapNames)
    /\ ~HasTableName(drained[2])
    /\ Len(emitted) = 1
    /\ emitted[1].event.type = "bootstrap"

C13_PeersByNetwork ==
    /\ network \in {"Mainnet", "Preprod", "Preview"} =>
          peers_for_network(network) # <<>>
    /\ network \notin {"Mainnet", "Preprod", "Preview"} =>
          peers_for_network(network) = <<>>
    /\ \A other \in {"Mainnet", "Preprod", "Preview"} \ {network} :
          peers_for_network(other) # peers_for_network(network)
    /\ config.built =>
          /\ config.upstream_peers = peers_for_network(network)
          /\ (network = "Preprod") =>
                config.upstream_peers = <<"preprod-node.play.dev.cardano.org:3001">>

\* The engine runs on Preprod with a configuration that names its peer.
C13_Witness ==
    /\ orchPc = "engine_running"
    /\ network = "Preprod"
    /\ config.built
    /\ Len(config.upstream_peers) = 1

\* A configuration for a network without known peers has been built.
C13_WitnessOther ==
    /\ config.built
    /\ network = "Testnet(42)"
    /\ config.upstream_peers = <<>>

\* The variant a record name selects, as the kind that names it on the wire.
KindOfName ==
    [ n \in TableNames |->
        CASE n = <<"Downloading snapshot">> -> "downloading_snapshot"
          [] n = <<"All snapshots downloaded and decompressed successfully">> ->
                "snapshots_downloaded"
          [] n = <<"Importing snapshots">> -> "importing_snapshots"
          [] n = <<"Importing snapshot">> -> "importing_snapshot"
          [] n = <<"Imported snapshot">> -> "imported_snapshot"
          [] n = <<"Imported snapshots">> -> "imported_snapshots"
          [] n = <<"starting">> -> "starting"
          [] n = <<"new", ".", "known_snapshots">> -> "creating_state"
          [] n = <<"epoch_transition">> -> "epoch_transition"
          [] n = <<"track_peers", ".", "caught_up", ".", "new_tip">> -> "tip_caught_up"
          [] n = <<"track_peers", ".", "syncing", ".", "new_tip">> -> "tip_syncing" ]

\* The payload fields of each variant as the data model of the specification
\* enumerates them.
DataModelFields(kind) ==
    CASE kind = "starting" -> {"tip_slot"}
      [] kind = "importing_snapshot" -> {"snapshot_name"}
      [] kind = "epoch_transition" -> {"from_epoch", "into_epoch"}
      [] kind \in {"downloading_snapshot", "imported_snapshot"} -> {"epoch"}
      [] kind \in {"tip_caught_up", "tip_syncing"} -> {"slot"}
      [] OTHER -> {}

\* The same with the names tip, snapshot, from and into.
StructFields(kind) ==
    CASE kind = "starting" -> {"tip"}
      [] kind = "importing_snapshot" -> {"snapshot"}
      [] kind = "epoch_transition" -> {"from", "into"}
      [] kind \in {"downloading_snapshot", "imported_snapshot"} -> {"epoch"}
      [] kind \in {"tip_caught_up", "tip_syncing"} -> {"slot"}
      [] OTHER -> {}

\* The i-th publish is on channel "amaru", of the form {type, payload}, with
\* the type of its category, the kind of its variant and the given fields.
PublishedAs(i, Fields(_)) ==
    LET e == emitted[i].event
        line == drained[emitted[i].idx]
    IN  /\ emitted[i].channel = "amaru"
        /\ DOMAIN e = {"type", "payload"}
        /\ HasTableName(line)
        /\ e.type = IF HasNameIn(line, BootstrapNames) THEN "bootstrap" ELSE "runtime"
        /\ e.payload.kind = KindOfName[line.f["name"].s]
        /\ DOMAIN e.payload = {"kind"} \cup Fields(e.payload.kind)

\* C14 as stated: every event is published on channel "amaru" as
\* {type, payload} with type "bootstrap" or "runtime" by its category,
\* payload.kind naming the variant, and the payload fields named tip_slot
\* (Starting), snapshot_name (ImportingSnapshot), from_epoch and into_epoch
\* (EpochTransition), epoch (DownloadingSnapshot, ImportedSnapshot) and slot
\* (TipCaughtUp, TipSyncing).
C14_DataModelFieldNames ==
    \A i \in 1..Len(emitted) : PublishedAs(i, DataModelFields)

\* C14 as amended: the same, with Starting carrying tip, ImportingSnapshot
\* carrying snapshot, and EpochTransition carrying from and into.
C14_StructFieldNames ==
    \A i \in 1..Len(emitted) : PublishedAs(i, StructFields)

\* An EpochTransition from 214 into 215 has been published.
C14_Witness ==
    /\ Len(emitted) = 1
    /\ emitted[1].channel = "amaru"
    /\ emitted[1].event = [ type |-> "runtime",
                            payload |-> [ kind |-> "epoch_transition",
                                          from |-> 214, into |-> 215 ] ]

\* C15: a drain on an empty collector returns the empty sequence and leaves
\* the collector empty, and the cycle that finds no records publishes
\* nothing; every drain leaves the collector empty, so a drain that follows
\* another with no append in between returns nothing.
C15_EmptyDrain ==
    /\ [][(loopPc = "flush" /\ loopPc' = "for") =>
             /\ buffer' = <<>>
             /\ (buffer = <<>>) =>
                   (lines' = <<>> /\ drained' = drained /\ emitted' = emitted)]_vars
    /\ [][(loopPc = "for" /\ lines = <<>> /\ cycleStart = Len(drained)) =>
             emitted' = emitted]_vars
    /\ [](loopPc = "for" /\ cycleStart = Len(drained) =>
             /\ lines = <<>>
             /\ \A i \in 1..Len(emitted) : emitted[i].cycle # cycleStart)

\* A drain that returned a record has been followed by one that returned
\* nothing, and the loop is at the end of that empty cycle.
C15_Witness ==
    /\ loopPc = "for"
    /\ lines = <<>>
    /\ Len(drained) = 1
    /\ cycleStart = Len(drained)
    /\ buffer = <<>>
    /\ Len(appended) = 1

\* The moves of the orchestrator: NotStarted, Bootstrapping, Running (the
\* engine being started, then awaited), Terminated.
ForwardMoves ==
    { <<"unspawned", "not_started">>,
      <<"not_started", "bootstrapping">>, <<"not_started", "starting_engine">>,
      <<"bootstrapping", "starting_engine">>, <<"bootstrapping", "terminated">>,
      <<"starting_engine", "engine_running">>, <<"starting_engine", "terminated">>,
      <<"engine_running", "terminated">> }

\* C16: the orchestrator only moves forward from NotStarted through
\* Bootstrapping (when taken) and Running to Terminated; bootstrap is invoked
\* at most once and the engine start attempted at most once; the engine
\* handle is awaited only after the one start returned success; and once
\* Terminated nothing of the orchestrator changes any more.
C16_ForwardOnly ==
    /\ [](/\ bootstrapCalls <= 1
          /\ engineStarts <= 1
          /\ orchPc = "engine_running" =>
                (engineStarts = 1 /\ orchResult = "none" /\ opLog = 0)
          /\ orchResult = "engine_exit" => (engineStarts = 1 /\ opLog = 0))
    /\ [][/\ orchPc' # orchPc => <<orchPc, orchPc'>> \in ForwardMoves
          /\ orchPc = "terminated" => UNCHANGED orchVars
          /\ bootstrapCalls' # bootstrapCalls => orchPc = "not_started"
          /\ engineStarts' # engineStarts => orchPc = "starting_engine"]_vars

\* The orchestrator went through every state: it bootstrapped, started the
\* engine, awaited it and terminated.
C16_Witness ==
    /\ orchPc = "terminated"
    /\ orchResult = "engine_exit"
    /\ bootstrapCalls = 1
    /\ bootstrapResult = "ok"
    /\ engineStarts = 1

\* C17: a failed engine start writes one line to the operational log and
\* terminates the orchestrator without publishing; no step of the
\* orchestrator publishes; and every published event is the classification
\* of a record drained from the collector.
C17_NoOrchestratorEvents ==
    /\ [][(orchResult # "start_failed" /\ orchResult' = "start_failed") =>
             (opLog' = opLog + 1 /\ orchPc' = "terminated" /\ emitted' = emitted)]_vars
    /\ [][orchVars' # orchVars => emitted' = emitted]_vars
    /\ [](\A i \in 1..Len(emitted) :
             /\ emitted[i].channel = "amaru"
             /\ emitted[i].idx \in 1..Len(drained)
             /\ event_of(drained[emitted[i].idx]) = Some(emitted[i].event))

\* The engine start failed after a record had been drained and published:
\* the one published event is that record's.
C17_Witness ==
    /\ orchPc = "terminated"
    /\ orchResult = "start_failed"
    /\ opLog = 1
    /\ Len(drained) = 1
    /\ Len(emitted) = 1

\* C18: when clear_app_data_dir returns Ok the application-data directory,
\* and the ledger directory under it, do not exist, so an orchestration that
\* starts after it finds the ledger directory absent and bootstraps before
\* it starts the engine; and a clear_app_data_dir that finds no
\* application-data directory returns Ok and changes nothing.
C18_ClearThenBootstrap ==
    /\ [][clears' # clears =>
             IF appData
             THEN lastClear' = "ok" => (~appData' /\ ~ledger' /\ ~chain')
             ELSE lastClear' = "ok" /\ UNCHANGED <<fsVars, orchVars>>]_vars
    /\ [](lastClear = "ok" /\ orchPc \in {"unspawned", "not_started"} =>
             (~appData /\ ~ledger))
    /\ [][(lastClear = "ok" /\ orchPc = "not_started" /\ orchPc' # orchPc) =>
             /\ orchPc' = "bootstrapping"
             /\ bootstrapCalls' = 1
             /\ engineStarts' = 0]_vars

\* The directory existed, clear_app_data_dir removed it and returned Ok, and
\* the orchestration that started afterwards is bootstrapping.
C18_Witness ==
    /\ lastClear = "ok"
    /\ clearFound = "existed"
    /\ orchPc = "bootstrapping"
    /\ ledgerAtStart = "absent"
    /\ ~appData

\* clear_app_data_dir found no directory and returned Ok.
C18_WitnessAbsent ==
    /\ lastClear = "ok"
    /\ clearFound = "absent"
    /\ ~appData

\* C19: the storage directories are not removed from under a live
\* orchestrator: a clear_app_data_dir issued while the orchestrator is
\* bootstrapping or running the engine leaves the ledger and the chain
\* directory as they are.
C19_NoClearUnderLiveOrchestrator ==
    [][(clears' # clears /\
          orchPc \in {"bootstrapping", "starting_engine", "engine_running"}) =>
          (ledger' = ledger /\ chain' = chain)]_vars

====
